---- MODULE Spec2Model ----
(***************************************************************************)
(* Model of the Blender addon AutoColliderBounder.py: the operators        *)
(* "Create Collider" and "Modify Collider Layer" acting on the host's      *)
(* scene database (bpy.data.objects, bpy.data.meshes, bpy.data.materials). *)
(*                                                                         *)
(* Lengths and coordinates are stored as integers, U units per scene unit  *)
(* (U = 4), so that every halving the code performs is exact.  Object      *)
(* transforms are a per-axis scale in {1, -1} followed by a translation.   *)
(* A mesh is its set of vertex positions (coincident vertices are one      *)
(* element), the kinds of faces it has, and its material slots.            *)
(* An object name is <<stem, n>>: the text stem, followed by the host's    *)
(* numeric suffix ".00n" when n > 0.                                       *)
(* The operators are run from the sidebar panel with the host in object    *)
(* mode; each runs to completion inside one UI callback.                   *)
(***************************************************************************)
EXTENDS Integers, Sequences, FiniteSets, TLC

\* ------------------------------------------------------------- bounds
MaxObjects == 5
MaxOps == 1

\* ------------------------------------------------------------- numbers
U == 4

SetMin(S) == CHOOSE x \in S : \A y \in S : x <= y
SetMax(S) == CHOOSE x \in S : \A y \in S : x >= y
Max2(a, b) == IF a >= b THEN a ELSE b
Min2(a, b) == IF a <= b THEN a ELSE b
Max3(a, b, c) == Max2(a, Max2(b, c))

\* mathutils.Vector arithmetic on <<x, y, z>>
VAdd(a, b) == <<a[1] + b[1], a[2] + b[2], a[3] + b[3]>>
VSub(a, b) == <<a[1] - b[1], a[2] - b[2], a[3] - b[3]>>
VMul(a, b) == <<a[1] * b[1], a[2] * b[2], a[3] * b[3]>>
VHalf(a) == <<a[1] \div 2, a[2] \div 2, a[3] \div 2>>
VNeg(a) == <<0 - a[1], 0 - a[2], 0 - a[3]>>
Zero3 == <<0, 0, 0>>
One3 == <<1, 1, 1>>

\* 4x4 matrices restricted to scale (+1/-1 per axis) and translation
Mat(s, t) == [s |-> s, t |-> t]
Identity == Mat(One3, Zero3)
MApply(m, p) == VAdd(VMul(m.s, p), m.t)
MCompose(a, b) == Mat(VMul(a.s, b.s), VAdd(VMul(a.s, b.t), a.t))
MInverted(m) == Mat(m.s, VNeg(VMul(m.s, m.t)))

\* v, then F of it: the statements of the code run one after the other, each
\* on the scene the one before it left
Then(v, F(_)) == CHOOSE r \in {F(x) : x \in {v}} : TRUE

\* ------------------------------------------------------------- host data
NoUsage == "<absent>"
NoObject == 0
Usages == {"Main", "Vehicle"}
ColliderTypes == {"UBX", "USP", "UCL", "UCS", "UCX", "UTM"}
ActiveCollection == "Collection"

Yellow == <<10, 10, 0, 1>>
Red == <<10, 0, 0, 10>>
Grey == <<8, 8, 8, 10>>

Name(stem) == <<stem, 0>>
Names(objs) == {objs[o].name : o \in DOMAIN objs}

\* The host keeps object names unique: a name that is taken gets the
\* smallest free numeric suffix.
UniqueName(n, taken) ==
    IF n \notin taken THEN n
    ELSE <<n[1], SetMin({k \in 1..(Cardinality(taken) + 1) : <<n[1], k>> \notin taken})>>

\* prefix + "_" + name, as the host parses the resulting text
PrefixName(prefix, n) == <<prefix \o "_" \o n[1], n[2]>>

FreeId(D) == SetMin({i \in 1..(Cardinality(D) + 1) : i \notin D})

Ext(f, k, v) == [i \in DOMAIN f \cup {k} |-> IF i = k THEN v ELSE f[i]]
Drop(f, K) == [i \in DOMAIN f \ K |-> f[i]]

\* obj.name = n
SetName(s, o, n) ==
    [s EXCEPT !.objs[o].name = UniqueName(n, Names(Drop(s.objs, {o})))]

\* obj.matrix_world: the local transform under the parent's
RECURSIVE World(_, _)
World(objs, o) ==
    LET local == Mat(objs[o].scale, objs[o].loc)
    IN  IF objs[o].parent = NoObject THEN local
        ELSE MCompose(MCompose(World(objs, objs[o].parent), objs[o].pinv), local)

\* obj.bound_box: the eight corners of the local bounding box of the mesh
BoundBox(verts) ==
    LET lo == [a \in 1..3 |-> SetMin({v[a] : v \in verts})]
        hi == [a \in 1..3 |-> SetMax({v[a] : v \in verts})]
    IN  {<<x, y, z>> : x \in {lo[1], hi[1]}, y \in {lo[2], hi[2]}, z \in {lo[3], hi[3]}}

\* mutant: the local bounding box, matrix_world forgotten
get_bounding_box_local(s, o) ==
    LET bbox_corners == BoundBox(s.meshes[s.objs[o].data].verts)
        min_corner == <<SetMin({v[1] : v \in bbox_corners}),
                        SetMin({v[2] : v \in bbox_corners}),
                        SetMin({v[3] : v \in bbox_corners})>>
        max_corner == <<SetMax({v[1] : v \in bbox_corners}),
                        SetMax({v[2] : v \in bbox_corners}),
                        SetMax({v[3] : v \in bbox_corners})>>
    IN  [min_corner |-> min_corner, max_corner |-> max_corner,
         size |-> VSub(max_corner, min_corner),
         center |-> VHalf(VAdd(min_corner, max_corner))]

get_bounding_box(s, o) ==
    LET world_matrix == World(s.objs, o)
        bbox_corners == {MApply(world_matrix, c) : c \in BoundBox(s.meshes[s.objs[o].data].verts)}
        min_corner == <<SetMin({v[1] : v \in bbox_corners}),
                        SetMin({v[2] : v \in bbox_corners}),
                        SetMin({v[3] : v \in bbox_corners})>>
        max_corner == <<SetMax({v[1] : v \in bbox_corners}),
                        SetMax({v[2] : v \in bbox_corners}),
                        SetMax({v[3] : v \in bbox_corners})>>
    IN  [min_corner |-> min_corner, max_corner |-> max_corner,
         size |-> VSub(max_corner, min_corner),
         center |-> VHalf(VAdd(min_corner, max_corner))]

\* ------------------------------------------------------------- host operators
\* bpy.ops.mesh.primitive_*_add: a new mesh object at `location`, linked to
\* the active collection, the only selected object, and the active one.
PrimitiveAdd(s, verts, faces, stem, location) ==
    LET o == FreeId(DOMAIN s.objs)
        d == FreeId(DOMAIN s.meshes)
        ob == [name |-> UniqueName(Name(stem), Names(s.objs)), type |-> "MESH",
               data |-> d, parent |-> NoObject, pinv |-> Identity,
               loc |-> location, scale |-> One3, usage |-> NoUsage,
               colls |-> {ActiveCollection}, sel |-> TRUE]
    IN  [s EXCEPT !.objs = Ext([i \in DOMAIN s.objs |-> [s.objs[i] EXCEPT !.sel = FALSE]], o, ob),
                  !.meshes = Ext(s.meshes, d, [verts |-> verts, faces |-> faces, mats |-> <<>>]),
                  !.active = o]

CubeVerts(size) ==
    {<<x, y, z>> : x \in {0 - size \div 2, size \div 2},
                   y \in {0 - size \div 2, size \div 2},
                   z \in {0 - size \div 2, size \div 2}}
\* a UV sphere: the two poles and the equator
SphereVerts(r) ==
    {<<0, 0, r>>, <<0, 0, 0 - r>>, <<r, 0, 0>>, <<0 - r, 0, 0>>, <<0, r, 0>>, <<0, 0 - r, 0>>}
\* a cylinder: the two rims
CylinderVerts(r, depth) ==
    {<<x, y, z>> : x \in {0 - r, r}, y \in {0}, z \in {0 - depth \div 2, depth \div 2}}
    \cup {<<x, y, z>> : x \in {0}, y \in {0 - r, r}, z \in {0 - depth \div 2, depth \div 2}}

primitive_cube_add(s, size, location) ==
    PrimitiveAdd(s, CubeVerts(size), {"quad"}, "Cube", location)
primitive_uv_sphere_add(s, radius, location) ==
    PrimitiveAdd(s, SphereVerts(radius), {"tri", "quad"}, "Sphere", location)
primitive_cylinder_add(s, radius, depth, location) ==
    PrimitiveAdd(s, CylinderVerts(radius, depth), {"quad", "ngon"}, "Cylinder", location)

\* bpy.ops.object.mode_set(mode='EDIT'): the active object enters edit mode,
\* and with it every selected object of the same type.
mode_set_EDIT(s) ==
    [s EXCEPT !.edit = {s.active} \cup
        {o \in DOMAIN s.objs : s.objs[o].sel /\ s.objs[o].type = s.objs[s.active].type}]
mode_set_OBJECT(s) == [s EXCEPT !.edit = {}]

\* bpy.ops.mesh.select_all + bpy.ops.mesh.quads_convert_to_tris: every face
\* of every mesh in edit mode becomes triangles.
Triangulated(faces) == IF faces = {} THEN {} ELSE {"tri"}
quads_convert_to_tris(s) ==
    LET D == {s.objs[o].data : o \in s.edit}
    IN  [s EXCEPT !.meshes = [d \in DOMAIN s.meshes |->
            IF d \in D THEN [s.meshes[d] EXCEPT !.faces = Triangulated(@)] ELSE s.meshes[d]]]

\* bmesh.ops.convex_hull(bm, input=bm.verts): adds the hull's triangles to
\* the one mesh bm was taken from.
convex_hull(s, d) == [s EXCEPT !.meshes[d].faces = @ \cup {"tri"}]

\* bpy.ops.object.select_all(action='DESELECT')
select_all_DESELECT(s) ==
    [s EXCEPT !.objs = [i \in DOMAIN s.objs |-> [s.objs[i] EXCEPT !.sel = FALSE]]]
select_set(s, o) == [s EXCEPT !.objs[o].sel = TRUE]

\* bpy.ops.object.join(): the selected meshes are merged into the active
\* object, keeping their world positions, and their objects are removed
\* (their mesh data, left without users, is dropped with them).
join(s) ==
    LET a == s.active
        others == {o \in DOMAIN s.objs : o # a /\ s.objs[o].sel /\ s.objs[o].type = "MESH"}
        toLocal == MInverted(World(s.objs, a))
        moved(o) == {MApply(toLocal, MApply(World(s.objs, o), v)) :
                        v \in s.meshes[s.objs[o].data].verts}
        da == s.objs[a].data
        merged == [s.meshes[da] EXCEPT
                     !.verts = @ \cup UNION {moved(o) : o \in others},
                     !.faces = @ \cup UNION {s.meshes[s.objs[o].data].faces : o \in others}]
    IN  [s EXCEPT !.objs = Drop(s.objs, others),
                  !.meshes = Drop([s.meshes EXCEPT ![da] = merged],
                                  {s.objs[o].data : o \in others})]

\* src_obj.copy(); new_obj.data = src_obj.data.copy(); collection.objects.link(new_obj)
CopyObject(s, src) ==
    LET o == FreeId(DOMAIN s.objs)
        d == FreeId(DOMAIN s.meshes)
        ob == [s.objs[src] EXCEPT
                 !.name = UniqueName(s.objs[src].name, Names(s.objs)),
                 !.data = d, !.colls = {ActiveCollection}]
    IN  [s EXCEPT !.objs = Ext(s.objs, o, ob),
                  !.meshes = Ext(s.meshes, d, s.meshes[s.objs[src].data])]

\* ------------------------------------------------------------- the addon
MatName == "col"

get_or_create_collider_material(s) ==
    IF MatName \in DOMAIN s.mats THEN s
    ELSE [s EXCEPT !.mats = Ext(s.mats, MatName,
                                [diffuse_color |-> Yellow, blend_method |-> "BLEND"])]

assign_collider_material(s, obj) ==
    Then(get_or_create_collider_material(s), LAMBDA s1 :
        [s1 EXCEPT !.meshes[s1.objs[obj].data].mats =
            Append(IF @ # <<>> THEN <<>> ELSE @, MatName)])

link_to_source_collections(s, new_obj, source_obj) ==
    [s EXCEPT !.objs[new_obj].colls = @ \cup s.objs[source_obj].colls]

\* mutant: the parent inverse is set, the parent is not
parent_to_source_unparented(s, new_obj, source_obj) ==
    [s EXCEPT !.objs[new_obj].pinv = MInverted(World(s.objs, source_obj))]

parent_to_source(s, new_obj, source_obj) ==
    [s EXCEPT !.objs[new_obj].parent = source_obj,
              !.objs[new_obj].pinv = MInverted(World(s.objs, source_obj))]

\* Each create_* returns the scene in which the returned collider is the
\* active object (new_obj = bpy.context.active_object).
create_box_collider(s, size, center, src_name) ==
    Then(primitive_cube_add(s, U, center), LAMBDA s1 :
    Then(mode_set_EDIT(SetName(s1, s1.active, PrefixName("UBX", src_name))), LAMBDA s2 :
        mode_set_OBJECT(
            [s2 EXCEPT !.meshes[s2.objs[s2.active].data].verts =
                {<<(v[1] * size[1]) \div U, (v[2] * size[2]) \div U, (v[3] * size[3]) \div U>> : v \in @}])))

sphere_radius(size) == Max3(size[1], size[2], size[3]) \div 2

create_sphere_collider(s, size, center, src_name) ==
    Then(primitive_uv_sphere_add(s, sphere_radius(size), center), LAMBDA s1 :
        SetName(s1, s1.active, PrefixName("USP", src_name)))

cylinder_radius(size) == Max2(size[1], size[2]) \div 2

\* mutant: the sphere's prefix pasted into the cylinder
create_cylinder_collider_usp(s, size, center, src_name) ==
    Then(primitive_cylinder_add(s, cylinder_radius(size), size[3], center), LAMBDA s1 :
        SetName(s1, s1.active, PrefixName("USP", src_name)))

create_cylinder_collider(s, size, center, src_name) ==
    Then(primitive_cylinder_add(s, cylinder_radius(size), size[3], center), LAMBDA s1 :
        SetName(s1, s1.active, PrefixName("UCL", src_name)))

capsule_radius(size) == Min2(size[1], size[2]) \div 2
capsule_height(size) == size[3] - 2 * capsule_radius(size)

\* verts_to_delete of the top / bottom hemisphere
\* mutant: the comparison of the bottom hemisphere used for the top one
TopVertsToDelete_flipped(z, plane) == z > plane
TopVertsToDelete(z, plane) == z < plane
BottomVertsToDelete(z, plane) == z > plane

\* mode_set(EDIT); bmesh.ops.delete(verts_to_delete); mode_set(OBJECT), on the
\* sphere just added (the active object)
TrimSphere(s, top, plane) ==
    Then(mode_set_EDIT(s), LAMBDA s1 :
        mode_set_OBJECT(
            [s1 EXCEPT !.meshes[s1.objs[s1.active].data].verts =
                {v \in @ :
                    IF top
                    THEN ~TopVertsToDelete(MApply(World(s1.objs, s1.active), v)[3], plane)
                    ELSE ~BottomVertsToDelete(MApply(World(s1.objs, s1.active), v)[3], plane)}]))

\* the cylinder and the two hemispheres of a capsule; parts = <<cyl_obj,
\* sphere_top, sphere_bottom>> collects the objects as they are made
CapsuleCylinder(s, r, h, center) ==
    Then(primitive_cylinder_add(s, r, h, center), LAMBDA s1 :
        [scene |-> SetName(s1, s1.active, Name("temp_capsule_cylinder")),
         parts |-> <<s1.active>>])

CapsuleSphereTop(p, r, h, center) ==
    Then(primitive_uv_sphere_add(p.scene, r, VAdd(center, <<0, 0, h \div 2>>)), LAMBDA s1 :
        [scene |-> TrimSphere(SetName(s1, s1.active, Name("temp_capsule_sphere_top")),
                              TRUE, VAdd(center, <<0, 0, h \div 2>>)[3]),
         parts |-> Append(p.parts, s1.active)])

CapsuleSphereBottom(p, r, h, center) ==
    Then(primitive_uv_sphere_add(p.scene, r, VSub(center, <<0, 0, h \div 2>>)), LAMBDA s1 :
        [scene |-> TrimSphere(SetName(s1, s1.active, Name("temp_capsule_sphere_bottom")),
                              FALSE, VSub(center, <<0, 0, h \div 2>>)[3]),
         parts |-> Append(p.parts, s1.active)])

\* select_all(DESELECT); the three select_set(True); active = cyl_obj; join()
CapsuleJoin(p) ==
    join([select_set(select_set(select_set(select_all_DESELECT(p.scene),
              p.parts[1]), p.parts[2]), p.parts[3])
          EXCEPT !.active = p.parts[1]])

create_capsule_collider(s, size, center, src_name) ==
    IF capsule_height(size) < 0
    THEN Then(create_sphere_collider(s, size, center, src_name), LAMBDA s1 :
            SetName(s1, s1.active, PrefixName("UCS", src_name)))
    ELSE Then(CapsuleCylinder(s, capsule_radius(size), capsule_height(size), center), LAMBDA p1 :
         Then(CapsuleSphereTop(p1, capsule_radius(size), capsule_height(size), center), LAMBDA p2 :
         Then(CapsuleSphereBottom(p2, capsule_radius(size), capsule_height(size), center), LAMBDA p3 :
         Then(CapsuleJoin(p3), LAMBDA s10 :
            \* remove_doubles(threshold=0.0001): coincident vertices are
            \* already one element of the vertex set
            mode_set_OBJECT(mode_set_EDIT(
                SetName(s10, s10.active, PrefixName("UCS", src_name))))))))

\* new_obj.name = ...; collection.objects.link(new_obj); objects.active = new_obj
NameAndActivate(s1, new_obj, name) ==
    [SetName(s1, new_obj, name) EXCEPT !.active = new_obj]

create_convex_collider(s, src_obj, src_name) ==
    Then(NameAndActivate(CopyObject(s, src_obj), FreeId(DOMAIN s.objs),
                         PrefixName("UCX", src_name)), LAMBDA s2 :
    Then(mode_set_EDIT(s2), LAMBDA s3 :
        mode_set_OBJECT(convex_hull(s3, s3.objs[s3.active].data))))

create_triangle_collider(s, src_obj, src_name) ==
    Then(NameAndActivate(CopyObject(s, src_obj), FreeId(DOMAIN s.objs),
                         PrefixName("UTM", src_name)), LAMBDA s2 :
        mode_set_OBJECT(quads_convert_to_tris(mode_set_EDIT(s2))))

Report(s, level, msg) == [s EXCEPT !.reports = Append(@, <<level, msg>>)]

\* mutant: an existing "usage" is kept
SetUsage_keep(s, obj, usage) ==
    IF s.objs[obj].usage # NoUsage THEN s ELSE [s EXCEPT !.objs[obj].usage = usage]

\* collider_obj["usage"] = self.collider_usage
SetUsage(s, obj, usage) == [s EXCEPT !.objs[obj].usage = usage]

\* one iteration of the loop of OBJECT_OT_create_collider.execute
\* the create_* call that collider_type selects
CreateByType(s, obj, collider_type, bb, src_name) ==
    CASE collider_type = "UBX" -> create_box_collider(s, bb.size, bb.center, src_name)
      [] collider_type = "USP" -> create_sphere_collider(s, bb.size, bb.center, src_name)
      [] collider_type = "UCL" -> create_cylinder_collider(s, bb.size, bb.center, src_name)
      [] collider_type = "UCS" -> create_capsule_collider(s, bb.size, bb.center, src_name)
      [] collider_type = "UCX" -> create_convex_collider(s, obj, src_name)
      [] collider_type = "UTM" -> create_triangle_collider(s, obj, src_name)

\* what execute does with the collider (the active object of s1)
Dress(s1, collider_obj, obj, collider_usage) ==
    Then(SetUsage(assign_collider_material(
             parent_to_source(link_to_source_collections(s1, collider_obj, obj),
                              collider_obj, obj),
             collider_obj), collider_obj, collider_usage), LAMBDA s5 :
        Report(s5, "INFO", <<"Created collider", s5.objs[collider_obj].name, collider_usage>>))

CreateOne(s, obj, collider_type, collider_usage) ==
    IF s.objs[obj].type # "MESH" THEN s
    ELSE Then(get_bounding_box(s, obj), LAMBDA bb :
         Then(CreateByType(s, obj, collider_type, bb, s.objs[obj].name), LAMBDA s1 :
            Dress(s1, s1.active, obj, collider_usage)))

RECURSIVE CreateLoop(_, _, _, _)
CreateLoop(s, selected_objects, collider_type, collider_usage) ==
    IF selected_objects = <<>> THEN s
    ELSE CreateLoop(CreateOne(s, Head(selected_objects), collider_type, collider_usage),
                    Tail(selected_objects), collider_type, collider_usage)

\* mutant: no check of an empty selection
create_collider_execute_unguarded(s, selected_objects, collider_type, collider_usage) ==
    [scene |-> CreateLoop(s, selected_objects, collider_type, collider_usage),
     result |-> "FINISHED"]

\* OBJECT_OT_create_collider.execute: the scene and the operator's result
create_collider_execute(s, selected_objects, collider_type, collider_usage) ==
    IF selected_objects = <<>>
    THEN [scene |-> Report(s, "WARNING", <<"No objects selected">>), result |-> "CANCELLED"]
    ELSE [scene |-> CreateLoop(s, selected_objects, collider_type, collider_usage),
          result |-> "FINISHED"]

\* mutant: "usage" written without asking whether the object has one
ModifyOne_always(s, obj, collider_usage) ==
    IF s.objs[obj].type # "MESH" THEN s
    ELSE Report(SetUsage(s, obj, collider_usage), "INFO",
                <<"Modified collider", s.objs[obj].name, collider_usage>>)

\* one iteration of the loop of OBJECT_OT_modify_collider_layer.execute
ModifyOne(s, obj, collider_usage) ==
    IF s.objs[obj].type # "MESH" THEN s
    ELSE IF s.objs[obj].usage # NoUsage
         THEN Report(SetUsage(s, obj, collider_usage), "INFO",
                     <<"Modified collider", s.objs[obj].name, collider_usage>>)
         ELSE Report(s, "WARNING", <<"is not a collider", s.objs[obj].name>>)

RECURSIVE ModifyLoop(_, _, _)
ModifyLoop(s, selected_objects, collider_usage) ==
    IF selected_objects = <<>> THEN s
    ELSE ModifyLoop(ModifyOne(s, Head(selected_objects), collider_usage),
                    Tail(selected_objects), collider_usage)

modify_collider_layer_execute(s, selected_objects, collider_usage) ==
    IF selected_objects = <<>>
    THEN [scene |-> Report(s, "WARNING", <<"No objects selected">>), result |-> "CANCELLED"]
    ELSE [scene |-> ModifyLoop(s, selected_objects, collider_usage), result |-> "FINISHED"]

\* ------------------------------------------------------------- state
VARIABLES
    objs,        \* bpy.data.objects: id -> object
    meshes,      \* bpy.data.meshes: id -> mesh data
    materials,   \* bpy.data.materials: name -> material
    active,      \* bpy.context.view_layer.objects.active
    reports,     \* what the last operator reported
    result,      \* what the last operator returned
    prev,        \* history: the scene when the last operator started
    lastOp,      \* history: the last operator, its properties and selection
    ops,         \* how many operators have run
    lastUsage    \* history: collider made by the addon -> usage of the last
                 \* operator that created or modified it

vars == <<objs, meshes, materials, active, reports, result, prev, lastOp, ops, lastUsage>>

Scene == [objs |-> objs, meshes |-> meshes, mats |-> materials, active |-> active,
          edit |-> {}, reports |-> <<>>]

NoOp == [kind |-> "none", type |-> "", usage |-> "", selected |-> {}]

\* the host lists a set of objects in the order of its object database
RECURSIVE Listed(_)
Listed(S) == IF S = {} THEN <<>> ELSE <<SetMin(S)>> \o Listed(S \ {SetMin(S)})

BoxVerts(lo, hi) == {<<x, y, z>> : x \in {lo[1], hi[1]}, y \in {lo[2], hi[2]}, z \in {lo[3], hi[3]}}
\* source meshes: a tall box, a flat box and a cube, none centred on its origin
Shapes == {BoxVerts(<<0, 0, 0>>, <<8, 16, 40>>),
           BoxVerts(<<-4, 0, 4>>, <<12, 8, 8>>),
           BoxVerts(<<-4, -4, 0>>, <<4, 4, 8>>)}
Tetra == {<<0, 0, 0>>, <<8, 0, 0>>, <<0, 8, 0>>, <<0, 0, 12>>}

SourceObject(stem, type, data, loc, scale, usage, colls) ==
    [name |-> Name(stem), type |-> type, data |-> data, parent |-> NoObject,
     pinv |-> Identity, loc |-> loc, scale |-> scale, usage |-> usage,
     colls |-> colls, sel |-> FALSE]

Wood == [diffuse_color |-> Grey, blend_method |-> "OPAQUE"]

\* the scene the user built, before the addon has run
FreshScene(shape, mats) ==
    [objs |-> <<SourceObject("A", "MESH", 1, <<12, 0, -8>>, <<-1, 1, 1>>, "Terrain", {"Props"}),
                SourceObject("B", "MESH", 2, <<-20, 4, 0>>, One3, NoUsage, {ActiveCollection}),
                SourceObject("L", "LIGHT", 0, <<0, 0, 20>>, One3, NoUsage, {ActiveCollection})>>,
     meshes |-> <<[verts |-> shape, faces |-> {"quad"}, mats |-> <<"wood">>],
                  [verts |-> Tetra, faces |-> {"tri"}, mats |-> <<>>]>>,
     mats |-> mats, active |-> NoObject, edit |-> {}, reports |-> <<>>]

MaterialStates ==
    {[n \in {"wood"} |-> Wood]} \cup
    {[n \in {"wood", MatName} |->
        IF n = "wood" THEN Wood ELSE [diffuse_color |-> col, blend_method |-> "BLEND"]] :
     col \in {Yellow, Red}}

\* the same scene as an earlier session left it: Create Collider has been
\* run on A with the default usage
SavedScene(sc, collider_type) ==
    [create_collider_execute([sc EXCEPT !.objs[1].sel = TRUE], <<1>>, collider_type, "Main").scene
        EXCEPT !.reports = <<>>]

StartScenes ==
    LET fresh == {FreshScene(shape, mats) : shape \in Shapes, mats \in MaterialStates}
    IN  fresh \cup {SavedScene(sc, t) : sc \in fresh, t \in {"UBX", "UCX"}}

Init ==
    /\ \E sc \in StartScenes :
         /\ objs = sc.objs
         /\ meshes = sc.meshes
         /\ materials = sc.mats
         /\ active = sc.active
         /\ prev = sc
         /\ lastUsage = [c \in {o \in DOMAIN sc.objs : sc.objs[o].parent # NoObject} |-> "Main"]
    /\ reports = <<>>
    /\ result = "none"
    /\ lastOp = NoOp
    /\ ops = 0

\* the scene once the user has made S the selection
WithSelection(S) ==
    [Scene EXCEPT !.objs = [o \in DOMAIN objs |-> [objs[o] EXCEPT !.sel = (o \in S)]]]

Finish(start, out, op) ==
    /\ objs' = out.scene.objs
    /\ meshes' = out.scene.meshes
    /\ materials' = out.scene.mats
    /\ active' = out.scene.active
    /\ reports' = out.scene.reports
    /\ result' = out.result
    /\ prev' = start
    /\ lastOp' = op

\* The user selects the objects S and runs Create Collider from the panel;
\* the host lists the selection.
CreateCollider(S, collider_type, collider_usage) ==
    /\ ops < MaxOps
    /\ Cardinality(DOMAIN objs) + Cardinality({o \in S : objs[o].type = "MESH"}) <= MaxObjects
    /\ ops' = ops + 1
    /\ \E start \in {WithSelection(S)} :
       \E out \in {create_collider_execute(start, Listed(S), collider_type, collider_usage)} :
         /\ Finish(start, out, [kind |-> "create", type |-> collider_type,
                                usage |-> collider_usage, selected |-> S])
         /\ lastUsage' = [c \in DOMAIN lastUsage \cup (DOMAIN out.scene.objs \ DOMAIN objs) |->
                            IF c \in DOMAIN objs THEN lastUsage[c] ELSE collider_usage]

\* The user selects the objects S and runs Modify Collider Layer.
ModifyColliderLayer(S, collider_usage) ==
    /\ ops < MaxOps
    /\ ops' = ops + 1
    /\ \E start \in {WithSelection(S)} :
       \E out \in {modify_collider_layer_execute(start, Listed(S), collider_usage)} :
         /\ Finish(start, out, [kind |-> "modify", type |-> "", usage |-> collider_usage,
                                selected |-> S])
         /\ lastUsage' = [c \in DOMAIN lastUsage |->
                            IF c \in S /\ objs[c].type = "MESH" THEN collider_usage
                            ELSE lastUsage[c]]

Next ==
    \/ \E S \in SUBSET DOMAIN objs, t \in ColliderTypes, u \in Usages : CreateCollider(S, t, u)
    \/ \E S \in SUBSET DOMAIN objs, u \in Usages : ModifyColliderLayer(S, u)

Spec == Init /\ [][Next]_vars

\* ------------------------------------------------------------- properties
\* the objects the last operator added to the scene
New == DOMAIN objs \ DOMAIN prev.objs
\* the MESH objects that were selected when the last operator started
SelectedMeshesAtStart == {o \in lastOp.selected : prev.objs[o].type = "MESH"}
Range(q) == {q[i] : i \in DOMAIN q}

\* world-space vertex positions of a mesh object, and their extent on an axis
WorldVerts(sc, o) == {MApply(World(sc.objs, o), v) : v \in sc.meshes[sc.objs[o].data].verts}
Lo(P, a) == SetMin({p[a] : p \in P})
Hi(P, a) == SetMax({p[a] : p \in P})
Extent(P, a) == Hi(P, a) - Lo(P, a)
Now == [objs |-> objs, meshes |-> meshes]

\* C1: Create Collider on a non-empty selection returns FINISHED, keeps every
\* object that was there, and adds exactly one object per MESH object selected
\* at the start, parented to it, and nothing else.
C1_OneColliderPerSelectedMesh ==
    (lastOp.kind = "create" /\ lastOp.selected # {}) =>
        /\ result = "FINISHED"
        /\ DOMAIN prev.objs \subseteq DOMAIN objs
        /\ \A m \in SelectedMeshesAtStart : Cardinality({c \in New : objs[c].parent = m}) = 1
        /\ \A c \in New : objs[c].type = "MESH" /\ objs[c].parent \in SelectedMeshesAtStart

C1_Witness ==
    /\ lastOp.kind = "create"
    /\ lastOp.type = "UCS"
    /\ Cardinality(SelectedMeshesAtStart) = 2
    /\ lastOp.selected # SelectedMeshesAtStart
    /\ Cardinality(New) = 2

\* C2: every collider made by the addon carries the usage of the most recent
\* operator that created it or modified it while it was selected; right after
\* Create Collider every new collider carries the usage of the dialog.
C2_UsageIsLastChosen ==
    /\ \A c \in DOMAIN lastUsage : c \in DOMAIN objs /\ objs[c].usage = lastUsage[c]
    /\ lastOp.kind = "create" => \A c \in New : objs[c].usage = lastOp.usage

C2_Witness ==
    /\ lastOp.kind = "modify"
    /\ \E c \in DOMAIN lastUsage :
         /\ objs[c].name = Name("UCX_A")
         /\ prev.objs[c].usage # objs[c].usage
         /\ objs[objs[c].parent].usage \notin {NoUsage, objs[c].usage}

\* C3 as stated: every collider created with type T from a mesh named N is
\* named T_N.
C3_NamedTypeUnderscoreSource ==
    lastOp.kind = "create" =>
        \A c \in New : objs[c].name = PrefixName(lastOp.type, prev.objs[objs[c].parent].name)

\* C3 amended: the collider is named T_N unless another object holds that
\* name, and then it is T_N with a numeric suffix of the host; object names
\* stay unique.
C3_NamedUnlessTaken ==
    /\ \A a, b \in DOMAIN objs : objs[a].name = objs[b].name => a = b
    /\ lastOp.kind = "create" =>
        \A c \in New :
            LET want == PrefixName(lastOp.type, prev.objs[objs[c].parent].name)
            IN  /\ objs[c].name[1] = want[1]
                /\ \/ objs[c].name = want
                   \/ want \in Names(prev.objs)

C3_Witness ==
    /\ lastOp.kind = "create"
    /\ \E c \in New :
         /\ PrefixName(lastOp.type, prev.objs[objs[c].parent].name) \in Names(prev.objs)
         /\ objs[c].name[2] > 0

\* C4: with nothing selected both operators report WARNING "No objects
\* selected", return CANCELLED and leave objects, meshes, materials alone.
C4_EmptySelectionCancels ==
    (lastOp.kind \in {"create", "modify"} /\ lastOp.selected = {}) =>
        /\ reports = << <<"WARNING", <<"No objects selected">> >> >>
        /\ result = "CANCELLED"
        /\ objs = prev.objs
        /\ meshes = prev.meshes
        /\ materials = prev.mats

C4_Witness ==
    /\ lastOp.kind = "create"
    /\ lastOp.selected = {}
    /\ DOMAIN objs # 1..3
    /\ result = "CANCELLED"

\* C5: Modify Collider Layer on a non-empty selection returns FINISHED, adds
\* and removes nothing, sets "usage" of the selected MESH objects that have
\* one, warns about the selected MESH objects that have none, and changes
\* nothing else.
C5_ModifyTouchesOnlyUsage ==
    (lastOp.kind = "modify" /\ lastOp.selected # {}) =>
        /\ result = "FINISHED"
        /\ DOMAIN objs = DOMAIN prev.objs
        /\ meshes = prev.meshes
        /\ materials = prev.mats
        /\ \A o \in DOMAIN prev.objs :
             IF o \in SelectedMeshesAtStart /\ prev.objs[o].usage # NoUsage
             THEN objs[o] = [prev.objs[o] EXCEPT !.usage = lastOp.usage]
             ELSE objs[o] = prev.objs[o]
        /\ \A o \in SelectedMeshesAtStart :
             prev.objs[o].usage = NoUsage <=>
                <<"WARNING", <<"is not a collider", prev.objs[o].name>> >> \in Range(reports)

C5_Witness ==
    /\ lastOp.kind = "modify"
    /\ result = "FINISHED"
    /\ \E a, b, l \in lastOp.selected :
         /\ prev.objs[a].type = "MESH" /\ prev.objs[a].usage = NoUsage
         /\ prev.objs[b].type = "MESH" /\ prev.objs[b].usage \notin {NoUsage, lastOp.usage}
         /\ prev.objs[l].type # "MESH"
    /\ lastOp.selected # DOMAIN objs

\* C6: on each axis a box collider extends as far as the world-space bounding
\* box of its source and has the same midpoint.
C6_BoxMatchesBoundingBox ==
    (lastOp.kind = "create" /\ lastOp.type = "UBX") =>
        \A c \in New : \A a \in 1..3 :
            LET B == WorldVerts(Now, c)
                S == WorldVerts(prev, objs[c].parent)
            IN  /\ Extent(B, a) = Extent(S, a)
                /\ Lo(B, a) + Hi(B, a) = Lo(S, a) + Hi(S, a)

C6_Witness ==
    /\ lastOp.kind = "create"
    /\ lastOp.type = "UBX"
    /\ \E c \in New :
         LET S == WorldVerts(prev, objs[c].parent)
         IN  /\ Extent(S, 1) # Extent(S, 2) /\ Extent(S, 2) # Extent(S, 3)
             /\ Lo(S, 1) + Hi(S, 1) # 0
             /\ prev.objs[objs[c].parent].scale # One3

\* C7 as stated: a sphere collider has radius max(size.x, size.y, size.z) / 2,
\* a cylinder and a capsule collider have radius max(size.x, size.y) / 2.
C7_RadiusIsHalfMaxExtent ==
    (lastOp.kind = "create" /\ lastOp.type \in {"USP", "UCL", "UCS"}) =>
        \A c \in New :
            LET S == WorldVerts(prev, objs[c].parent)
                diameter == Extent(WorldVerts(Now, c), 1)
            IN  IF lastOp.type = "USP"
                THEN diameter = Max3(Extent(S, 1), Extent(S, 2), Extent(S, 3))
                ELSE diameter = Max2(Extent(S, 1), Extent(S, 2))

\* C8 as stated: every created collider has the single material slot 'col',
\* and 'col' is yellow with 10% opacity.
C8_ColliderMaterialIsYellowCol ==
    lastOp.kind = "create" =>
        \A c \in New :
            /\ meshes[objs[c].data].mats = <<MatName>>
            /\ materials[MatName].diffuse_color = Yellow

\* C9: a capsule collider is one object; with h >= 0 it is the cylinder of
\* depth h closed by the upper half of a sphere h/2 above the centre and the
\* lower half of a sphere h/2 below it, size.z high in all; with h < 0 it is
\* a full sphere; no temp_capsule_* object is left.
C9_CapsuleShape ==
    (lastOp.kind = "create" /\ lastOp.type = "UCS") =>
        /\ Cardinality(New) = Cardinality(SelectedMeshesAtStart)
        /\ \A o \in DOMAIN objs :
             objs[o].name[1] \notin {"temp_capsule_cylinder", "temp_capsule_sphere_top",
                                    "temp_capsule_sphere_bottom"}
        /\ \A c \in New :
            LET S == WorldVerts(prev, objs[c].parent)
                V == WorldVerts(Now, c)
                sx == Extent(S, 1)
                sy == Extent(S, 2)
                sz == Extent(S, 3)
                cx == (Lo(S, 1) + Hi(S, 1)) \div 2
                cy == (Lo(S, 2) + Hi(S, 2)) \div 2
                cz == (Lo(S, 3) + Hi(S, 3)) \div 2
                r == Min2(sx, sy) \div 2
                h == sz - 2 * r
                R == Max3(sx, sy, sz) \div 2
            IN  IF h >= 0
                THEN /\ V = {<<cx + dx, cy, cz + dz>> : dx \in {0 - r, r}, dz \in {0 - h \div 2, h \div 2}}
                            \cup {<<cx, cy + dy, cz + dz>> : dy \in {0 - r, r}, dz \in {0 - h \div 2, h \div 2}}
                            \cup {<<cx, cy, cz + h \div 2 + r>>, <<cx, cy, cz - h \div 2 - r>>}
                     /\ Extent(V, 3) = sz
                ELSE V = {<<cx + d[1], cy + d[2], cz + d[3]>> : d \in SphereVerts(R)}

C9_Witness ==
    /\ lastOp.kind = "create"
    /\ lastOp.type = "UCS"
    /\ \E c \in New :
         LET S == WorldVerts(prev, objs[c].parent)
         IN  Extent(S, 3) > 2 * (Min2(Extent(S, 1), Extent(S, 2)) \div 2)
                /\ Extent(WorldVerts(Now, c), 3) = Extent(S, 3)

\* C10 as stated: Create Collider leaves the name, mesh data, material slots,
\* "usage", parent and collections of every object selected at the start as
\* they were.
C10_SourcesUnchanged ==
    lastOp.kind = "create" =>
        \A o \in lastOp.selected :
            /\ o \in DOMAIN objs
            /\ objs[o].name = prev.objs[o].name
            /\ objs[o].usage = prev.objs[o].usage
            /\ objs[o].parent = prev.objs[o].parent
            /\ objs[o].colls = prev.objs[o].colls
            /\ objs[o].data = prev.objs[o].data
            /\ objs[o].type = "MESH" => meshes[objs[o].data] = prev.meshes[prev.objs[o].data]
====
